---------------------------- MODULE Spec2Model ----------------------------
(***************************************************************************)
(* Credential resolution and scoped-token issuance of the "credentials"    *)
(* Azure Function: utils.js (extractConnectionStringParts and its helpers) *)
(* and index.js (the HTTP handler and generateSasToken).                   *)
(*                                                                         *)
(* JavaScript strings are modelled as sequences of one-character strings,  *)
(* so that startsWith, search, split, trim, slice and the regex capture    *)
(* behave as they do in the code.  The alphabet contains no line           *)
(* terminators, so the capture group takes the whole rest of a segment.    *)
(***************************************************************************)
EXTENDS Integers, Sequences, FiniteSets, TLC

VARIABLES
    segs,              \* the Key=Value segments the configured string is made of
    connectionString,  \* process.env.AzureWebJobsStorage / the parser's argument
    tz,                \* the host's time zone (offset rule used by Date)
    now,               \* the wall clock, in hours (UTC)
    parts,             \* outcome of the last extractConnectionStringParts call
    signReq,           \* the request last handed to generateBlobSASQueryParameters
    res                \* outcome of the last HTTP call (context.res.body or a throw)

vars == <<segs, connectionString, tz, now, parts, signReq, res>>

-----------------------------------------------------------------------------
(* Bounds of the model *)

\* most Key=Value segments in a generated connection string
MaxSegs == 5
\* most hours the clock advances
MaxTicks == 5

-----------------------------------------------------------------------------
(* String primitives of JavaScript used by the code *)

startsWith(s, p) == Len(s) >= Len(p) /\ SubSeq(s, 1, Len(p)) = p

endsWith(s, p) == Len(s) >= Len(p) /\ SubSeq(s, Len(s) - Len(p) + 1, Len(s)) = p

\* 1-based position of the first occurrence of p in s, 0 when there is none
indexOf(s, p) ==
    LET hits == {i \in 1..(Len(s) - Len(p) + 1) : SubSeq(s, i, i + Len(p) - 1) = p}
    IN  IF hits = {} THEN 0 ELSE CHOOSE i \in hits : \A j \in hits : i <= j

\* String.prototype.search with a pattern free of regex metacharacters:
\* -1 when absent, else the 0-based index
search(s, p) == indexOf(s, p) - 1

RECURSIVE split(_, _)
split(s, c) ==
    LET cut == {i \in 1..Len(s) : s[i] = c}
    IN  IF cut = {} THEN <<s>>
        ELSE LET i == CHOOSE i \in cut : \A j \in cut : i <= j
             IN  <<SubSeq(s, 1, i - 1)>> \o split(SubSeq(s, i + 1, Len(s)), c)

RECURSIVE trimStart(_)
trimStart(s) == IF s # <<>> /\ Head(s) = " " THEN trimStart(Tail(s)) ELSE s

RECURSIVE trimEnd(_)
trimEnd(s) ==
    IF s # <<>> /\ s[Len(s)] = " " THEN trimEnd(SubSeq(s, 1, Len(s) - 1)) ELSE s

trim(s) == trimEnd(trimStart(s))

\* s.slice(0, -1)
sliceLast(s) == SubSeq(s, 1, Len(s) - 1)

UpperCase ==
    <<"A","B","C","D","E","F","G","H","I","J","K","L","M",
      "N","O","P","Q","R","S","T","U","V","W","X","Y","Z">>
LowerCase ==
    <<"a","b","c","d","e","f","g","h","i","j","k","l","m",
      "n","o","p","q","r","s","t","u","v","w","x","y","z">>

toLowerCase(s) ==
    [i \in 1..Len(s) |->
        IF \E k \in 1..26 : UpperCase[k] = s[i]
        THEN LowerCase[CHOOSE k \in 1..26 : UpperCase[k] = s[i]]
        ELSE s[i]]

\* element.match(argument + "=<rest>"): the capture group of the first match,
\* or null (ok = FALSE) when the pattern does not occur in the element
match(element, argument) ==
    LET pat == argument \o <<"=">>
        i == indexOf(element, pat)
    IN  IF i = 0 THEN [ok |-> FALSE]
        ELSE [ok |-> TRUE, v |-> SubSeq(element, i + Len(pat), Len(element))]

-----------------------------------------------------------------------------
(* Buffer.from(text, "base64") and buffer.toString("base64") *)

Base64Alphabet ==
    <<"A","B","C","D","E","F","G","H","I","J","K","L","M","N","O","P",
      "Q","R","S","T","U","V","W","X","Y","Z","a","b","c","d","e","f",
      "g","h","i","j","k","l","m","n","o","p","q","r","s","t","u","v",
      "w","x","y","z","0","1","2","3","4","5","6","7","8","9","+","/">>

isBase64Char(c) == \E k \in 1..64 : Base64Alphabet[k] = c

sextet(c) == (CHOOSE k \in 1..64 : Base64Alphabet[k] = c) - 1

\* the prefix of s before the first character that belongs to stops
upTo(s, stops) ==
    LET hits == {i \in 1..Len(s) : s[i] \in stops}
    IN  IF hits = {} THEN s
        ELSE SubSeq(s, 1, (CHOOSE i \in hits : \A j \in hits : i <= j) - 1)

\* the characters that carry data: everything before the first "=" padding,
\* characters outside the alphabet skipped
base64Payload(s) ==
    LET data == SelectSeq(upTo(s, {"="}), isBase64Char)
    IN  [i \in 1..Len(data) |-> sextet(data[i])]

\* bytes of a run of sextets: 4 sextets give 3 bytes, 3 give 2, 2 give 1
sextetsToBytes(q) ==
    [k \in 1..((Len(q) * 6) \div 8) |->
        LET g == 4 * ((k - 1) \div 3)
        IN  CASE (k - 1) % 3 = 0 -> q[g + 1] * 4 + (q[g + 2] \div 16)
              [] (k - 1) % 3 = 1 -> (q[g + 2] % 16) * 16 + (q[g + 3] \div 4)
              [] (k - 1) % 3 = 2 -> (q[g + 3] % 4) * 64 + q[g + 4]]

bufferFromBase64(s) == sextetsToBytes(base64Payload(s))

\* byte k of b, 0 past its end
byteAt(b, k) == IF k <= Len(b) THEN b[k] ELSE 0

bufferToBase64(b) ==
    [j \in 1..(4 * ((Len(b) + 2) \div 3)) |->
        LET g == 3 * ((j - 1) \div 4)
        IN  CASE (j - 1) % 4 = 0 -> Base64Alphabet[(byteAt(b, g + 1) \div 4) + 1]
              [] (j - 1) % 4 = 1 ->
                    Base64Alphabet[(byteAt(b, g + 1) % 4) * 16
                                   + (byteAt(b, g + 2) \div 16) + 1]
              [] (j - 1) % 4 = 2 ->
                    IF g + 2 > Len(b) THEN "="
                    ELSE Base64Alphabet[(byteAt(b, g + 2) % 16) * 4
                                        + (byteAt(b, g + 3) \div 64) + 1]
              [] (j - 1) % 4 = 3 ->
                    IF g + 3 > Len(b) THEN "="
                    ELSE Base64Alphabet[(byteAt(b, g + 3) % 64) + 1]]

-----------------------------------------------------------------------------
(* Literals of utils.js *)

\* "UseDevelopmentStorage=true"
K_UseDevelopmentStorage ==
    <<"U","s","e","D","e","v","e","l","o","p","m","e","n","t","S","t",
      "o","r","a","g","e","=","t","r","u","e">>
\* "DevelopmentStorageProxyUri="
K_DevelopmentStorageProxyUriEq ==
    <<"D","e","v","e","l","o","p","m","e","n","t","S","t","o","r","a",
      "g","e","P","r","o","x","y","U","r","i","=">>
\* "DevelopmentStorageProxyUri"
K_DevelopmentStorageProxyUri ==
    <<"D","e","v","e","l","o","p","m","e","n","t","S","t","o","r","a",
      "g","e","P","r","o","x","y","U","r","i">>
\* "BlobEndpoint"
K_BlobEndpoint ==
    <<"B","l","o","b","E","n","d","p","o","i","n","t">>
\* "DefaultEndpointsProtocol"
K_DefaultEndpointsProtocol ==
    <<"D","e","f","a","u","l","t","E","n","d","p","o","i","n","t","s",
      "P","r","o","t","o","c","o","l">>
\* "DefaultEndpointsProtocol="
K_DefaultEndpointsProtocolEq ==
    <<"D","e","f","a","u","l","t","E","n","d","p","o","i","n","t","s",
      "P","r","o","t","o","c","o","l","=">>
\* "AccountName"
K_AccountName ==
    <<"A","c","c","o","u","n","t","N","a","m","e">>
\* "AccountKey"
K_AccountKey ==
    <<"A","c","c","o","u","n","t","K","e","y">>
\* "AccountKey="
K_AccountKeyEq ==
    <<"A","c","c","o","u","n","t","K","e","y","=">>
\* "EndpointSuffix"
K_EndpointSuffix ==
    <<"E","n","d","p","o","i","n","t","S","u","f","f","i","x">>
\* "SharedAccessSignature"
K_SharedAccessSignature ==
    <<"S","h","a","r","e","d","A","c","c","e","s","s","S","i","g","n",
      "a","t","u","r","e">>
\* "https"
S_https ==
    <<"h","t","t","p","s">>
\* "http"
S_http ==
    <<"h","t","t","p">>
\* "blob"
S_blob ==
    <<"b","l","o","b">>
\* "://"
S_SchemeSep ==
    <<":","/","/">>
\* ".blob."
S_DotBlobDot ==
    <<".","b","l","o","b",".">>
\* "/"
S_Slash ==
    <<"/">>

\* The well-known emulator connection string the emulator shorthand stands for
\* "DefaultEndpointsProtocol=http;AccountName=devstoreaccount1;AccountKey=Eby8vdM02xNOcqFlqUwJPLlmEtlCDXJ1OUzFT50uSRZ6IFsuFq2UVErCz4I6tq/K1SZFPTOtr/KBHBeksoGMGw==;BlobEndpoint=http://127.0.0.1:10000/devstoreaccount1;"
DevelopmentConnectionString ==
    <<"D","e","f","a","u","l","t","E","n","d","p","o","i","n","t","s",
      "P","r","o","t","o","c","o","l","=","h","t","t","p",";","A","c",
      "c","o","u","n","t","N","a","m","e","=","d","e","v","s","t","o",
      "r","e","a","c","c","o","u","n","t","1",";","A","c","c","o","u",
      "n","t","K","e","y","=","E","b","y","8","v","d","M","0","2","x",
      "N","O","c","q","F","l","q","U","w","J","P","L","l","m","E","t",
      "l","C","D","X","J","1","O","U","z","F","T","5","0","u","S","R",
      "Z","6","I","F","s","u","F","q","2","U","V","E","r","C","z","4",
      "I","6","t","q","/","K","1","S","Z","F","P","T","O","t","r","/",
      "K","B","H","B","e","k","s","o","G","M","G","w","=","=",";","B",
      "l","o","b","E","n","d","p","o","i","n","t","=","h","t","t","p",
      ":","/","/","1","2","7",".","0",".","0",".","1",":","1","0","0",
      "0","0","/","d","e","v","s","t","o","r","e","a","c","c","o","u",
      "n","t","1",";">>

-----------------------------------------------------------------------------
(* Outcomes: a returned value or a thrown error *)

Return(v) == [ok |-> TRUE, v |-> v]
Throw(e) == [ok |-> FALSE, error |-> e]

\* thrown by the JavaScript runtime on null[1] and on undefined.toString
TypeError == "TypeError"
ErrUnableToExtract == "Unable to extract accountName with provided information."
ErrInvalidProtocol ==
    "Invalid DefaultEndpointsProtocol in the provided Connection String. Expecting 'https' or 'http'"
ErrInvalidEndpointSuffix == "Invalid EndpointSuffix in the provided Connection String"
ErrInvalidAccountName == "Invalid AccountName in the provided Connection String"
ErrInvalidAccountKey == "Invalid AccountKey in the provided Connection String"
ErrInvalidBlobEndpoint == "Invalid BlobEndpoint in the provided SAS Connection String"
ErrInvalidSas == "Invalid SharedAccessSignature in the provided SAS Connection String"
ErrInvalidAccountNameSas == "Invalid AccountName in the provided SAS Connection String"

-----------------------------------------------------------------------------
(* utils.js *)

\* URLBuilder.parse(url) with getHost() and getPath(): scheme://host[:port][/path][?query];
\* a component that is missing is undefined (has = FALSE)
URLBuilder_parse(url) ==
    LET i == indexOf(url, S_SchemeSep)
        rest == IF i = 0 THEN url ELSE SubSeq(url, i + Len(S_SchemeSep), Len(url))
        host == upTo(rest, {":", "/", "?"})
        afterHost == SubSeq(rest, Len(host) + 1, Len(rest))
        afterPort == IF afterHost # <<>> /\ Head(afterHost) = ":"
                     THEN SubSeq(afterHost, Len(upTo(afterHost, {"/", "?"})) + 1,
                                 Len(afterHost))
                     ELSE afterHost
        path == upTo(afterPort, {"?"})
    IN  [hasHost |-> host # <<>>, host |-> host,
         hasPath |-> path # <<>>, path |-> path]

getAccountNameFromUrl(url) ==
    LET parsedUrl == URLBuilder_parse(url)
        labels == split(parsedUrl.host, ".")
        segments == split(parsedUrl.path, "/")
    IN  IF ~parsedUrl.hasHost
        THEN Throw(ErrUnableToExtract)      \* undefined.split(...) caught
        ELSE IF Len(labels) >= 2 /\ labels[2] = S_blob
        THEN IF labels[1] = <<>> THEN Throw(ErrUnableToExtract)
             ELSE Return(labels[1])
        ELSE IF ~parsedUrl.hasPath
        THEN Throw(ErrUnableToExtract)      \* undefined.split(...) caught
        ELSE IF Len(segments) < 2 \/ segments[2] = <<>>
        THEN Throw(ErrUnableToExtract)      \* "Provided accountName is invalid." caught
        ELSE Return(segments[2])

\* faulty variant: the scan stops at the first DevelopmentStorageProxyUri segment
getProxyUriFromDevConnString_FirstMatch(cs) ==
    LET matchCredentials == split(cs, ";")
        hits == {i \in 1..Len(matchCredentials) :
                   startsWith(trim(matchCredentials[i]), K_DevelopmentStorageProxyUriEq)}
    IN  IF hits = {} THEN <<>>
        ELSE LET first == CHOOSE i \in hits : \A j \in hits : i <= j
             IN  match(trim(matchCredentials[first]), K_DevelopmentStorageProxyUri).v

getProxyUriFromDevConnString(cs) ==
    IF search(cs, K_DevelopmentStorageProxyUriEq) # -1
    THEN LET matchCredentials == split(cs, ";")
             hits == {i \in 1..Len(matchCredentials) :
                        startsWith(trim(matchCredentials[i]), K_DevelopmentStorageProxyUriEq)}
         IN  IF hits = {} THEN <<>>
             ELSE LET last == CHOOSE i \in hits : \A j \in hits : j <= i
                  IN  match(trim(matchCredentials[last]), K_DevelopmentStorageProxyUri).v
    ELSE <<>>

getValueInConnString(cs, argument) ==
    LET elements == split(cs, ";")
        hits == {i \in 1..Len(elements) : startsWith(trim(elements[i]), argument)}
    IN  IF hits = {} THEN Return(<<>>)
        ELSE LET first == CHOOSE i \in hits : \A j \in hits : i <= j
                 m == match(trim(elements[first]), argument)
             IN  IF m.ok THEN Return(m.v) ELSE Throw(TypeError)

\* "Slicing off '/' at the end if exists"
sliceTrailingSlash(blobEndpoint) ==
    IF endsWith(blobEndpoint, S_Slash) THEN sliceLast(blobEndpoint) ELSE blobEndpoint

\* faulty variant: the branch is taken on DefaultEndpointsProtocol= alone
isAccountConnString_ProtocolOnly(cs) == search(cs, K_DefaultEndpointsProtocolEq) # -1

\* faulty variant: a SharedAccessSignature= in the string wins over the account key
isAccountConnString_UnlessSas(cs) ==
    /\ search(cs, K_DefaultEndpointsProtocolEq) # -1
    /\ search(cs, K_AccountKeyEq) # -1
    /\ search(cs, K_SharedAccessSignature \o <<"=">>) = -1

\* the branch condition: both literals occur somewhere in the string
isAccountConnString(cs) ==
    search(cs, K_DefaultEndpointsProtocolEq) # -1 /\ search(cs, K_AccountKeyEq) # -1

validProtocol(defaultEndpointsProtocol) ==
    LET protocol == toLowerCase(defaultEndpointsProtocol)
    IN  protocol = S_https \/ protocol = S_http

\* faulty variant: the endpoint is built from the lower-cased protocol
synthesizedEndpoint_Lowercased(defaultEndpointsProtocol, accountName, endpointSuffix) ==
    toLowerCase(defaultEndpointsProtocol) \o S_SchemeSep \o accountName
        \o S_DotBlobDot \o endpointSuffix

synthesizedEndpoint(defaultEndpointsProtocol, accountName, endpointSuffix) ==
    defaultEndpointsProtocol \o S_SchemeSep \o accountName \o S_DotBlobDot \o endpointSuffix

\* faulty variant: the length of the decoded key is not checked
emptyAccountKey_Never(accountKey) == FALSE

\* accountKey.length === 0
emptyAccountKey(accountKey) == Len(accountKey) = 0

accountBranch(cs, blobEndpoint0, proxyUri) ==
    LET rName == getValueInConnString(cs, K_AccountName)
        rKey == getValueInConnString(cs, K_AccountKey)
        rProto == getValueInConnString(cs, K_DefaultEndpointsProtocol)
        rSuffix == getValueInConnString(cs, K_EndpointSuffix)
    IN  IF ~rName.ok THEN rName
        ELSE IF ~rKey.ok THEN rKey
        ELSE LET accountName == rName.v
                 accountKey == bufferFromBase64(rKey.v)
                 finish(blobEndpoint) ==
                     IF accountName = <<>> THEN Throw(ErrInvalidAccountName)
                     ELSE IF emptyAccountKey(accountKey) THEN Throw(ErrInvalidAccountKey)
                     ELSE Return([kind |-> "AccountConnString", url |-> blobEndpoint,
                                  accountName |-> accountName, accountKey |-> accountKey,
                                  proxyUri |-> proxyUri])
             IN  IF blobEndpoint0 # <<>> THEN finish(blobEndpoint0)
                 ELSE IF ~rProto.ok THEN rProto
                 ELSE IF ~validProtocol(rProto.v) THEN Throw(ErrInvalidProtocol)
                 ELSE IF ~rSuffix.ok THEN rSuffix
                 ELSE IF rSuffix.v = <<>> THEN Throw(ErrInvalidEndpointSuffix)
                 ELSE finish(synthesizedEndpoint(rProto.v, accountName, rSuffix.v))

sasBranch(cs, blobEndpoint) ==
    LET rSas == getValueInConnString(cs, K_SharedAccessSignature)
        rName == getAccountNameFromUrl(blobEndpoint)
    IN  IF ~rSas.ok THEN rSas
        ELSE IF ~rName.ok THEN rName
        ELSE IF blobEndpoint = <<>> THEN Throw(ErrInvalidBlobEndpoint)
        ELSE IF rSas.v = <<>> THEN Throw(ErrInvalidSas)
        ELSE IF rName.v = <<>> THEN Throw(ErrInvalidAccountNameSas)
        ELSE Return([kind |-> "SASConnString", url |-> blobEndpoint,
                     accountName |-> rName.v, accountSas |-> rSas.v])

extractConnectionStringParts(connectionString0) ==
    LET dev == startsWith(connectionString0, K_UseDevelopmentStorage)
        proxyUri == IF dev THEN getProxyUriFromDevConnString(connectionString0) ELSE <<>>
        cs == IF dev THEN DevelopmentConnectionString ELSE connectionString0
        rEndpoint == getValueInConnString(cs, K_BlobEndpoint)
    IN  IF ~rEndpoint.ok THEN rEndpoint
        ELSE LET blobEndpoint == sliceTrailingSlash(rEndpoint.v)
             IN  IF isAccountConnString(cs)
                 THEN accountBranch(cs, blobEndpoint, proxyUri)
                 ELSE sasBranch(cs, blobEndpoint)

-----------------------------------------------------------------------------
(* index.js *)

\* "images"
ContainerImages ==
    <<"i","m","a","g","e","s">>
\* "c"
PermissionsC ==
    <<"c">>

\* A time zone: the offset of local time from UTC (hours) is base before the
\* UTC instant change and base + delta from then on (delta = 0: no transition)
LocalTZA(zone, t) == zone.base + (IF t >= zone.change THEN zone.delta ELSE 0)

LocalTime(zone, t) == t + LocalTZA(zone, t)

\* UTC(tLocal): a local time that is skipped or repeated by the transition is
\* interpreted with the offset in force before the transition
UTC(zone, tLocal) ==
    IF tLocal - zone.base < zone.change THEN tLocal - zone.base
    ELSE IF tLocal - (zone.base + zone.delta) >= zone.change
    THEN tLocal - (zone.base + zone.delta)
    ELSE tLocal - zone.base

\* Date.prototype.getHours: the hour of the day in local time
getHours(zone, t) == LocalTime(zone, t) % 24

\* Date.prototype.setHours(hour): same local day, the given hour (24 and above
\* run into the following day), converted back to UTC
setHours(zone, t, hour) == UTC(zone, (LocalTime(zone, t) \div 24) * 24 + hour)

\* expiryDate = new Date(); expiryDate.setHours(expiryDate.getHours() + 2)
expiryDate(zone, t) == setHours(zone, t, getHours(zone, t) + 2)

PermissionOf(c) ==
    CASE c = "r" -> "read"
      [] c = "a" -> "add"
      [] c = "c" -> "create"
      [] c = "w" -> "write"
      [] c = "d" -> "delete"
      [] c = "l" -> "list"

\* ContainerSASPermissions.parse(permissions): one flag per letter,
\* RangeError on a letter that names no permission
ContainerSASPermissions_parse(permissions) ==
    IF \E i \in 1..Len(permissions) : permissions[i] \notin {"r", "a", "c", "w", "d", "l"}
    THEN Throw("RangeError")
    ELSE Return({PermissionOf(permissions[i]) : i \in 1..Len(permissions)})

NoRequest == [made |-> FALSE]

\* generateSasToken, from the outcome of its first statement on:
\* parsed is the outcome of extractConnectionStringParts(connectionString).
\* Yields [result, request], the request being what is handed to
\* generateBlobSASQueryParameters (NoRequest when the call throws before).
generateSasToken(parsed, container, permissions, zone, t) ==
    IF ~parsed.ok THEN [result |-> parsed, request |-> NoRequest]
    ELSE IF parsed.v.kind # "AccountConnString"
    THEN \* accountKey is undefined: accountKey.toString throws
         [result |-> Throw(TypeError), request |-> NoRequest]
    ELSE LET sharedKeyCredential ==
                 [accountName |-> parsed.v.accountName,
                  accountKey |-> bufferFromBase64(bufferToBase64(parsed.v.accountKey))]
             perms == ContainerSASPermissions_parse(permissions)
         IN  IF ~perms.ok THEN [result |-> perms, request |-> NoRequest]
             ELSE LET request == [made |-> TRUE,
                                  containerName |-> container,
                                  permissions |-> perms.v,
                                  expiresOn |-> expiryDate(zone, t),
                                  credential |-> sharedKeyCredential]
                  IN  [result |-> Return([sasKey |-> [signed |-> request],
                                          url |-> parsed.v.url]),
                       request |-> request]

-----------------------------------------------------------------------------
(* Inputs *)

RECURSIVE join(_, _)
join(ss, sep) ==
    IF ss = <<>> THEN <<>>
    ELSE IF Len(ss) = 1 THEN ss[1]
    ELSE ss[1] \o sep \o join(Tail(ss), sep)

RECURSIVE ascending(_)
ascending(S) ==
    IF S = {} THEN <<>>
    ELSE LET m == CHOOSE m \in S : \A k \in S : m <= k
         IN  <<m>> \o ascending(S \ {m})

\* the segments of catalogue cat picked by the index set S, in catalogue
\* order or reversed
pick(cat, S, reversed) ==
    LET idx == ascending(S)
        n == Len(idx)
    IN  [i \in 1..n |-> cat[idx[IF reversed THEN n + 1 - i ELSE i]]]

Inputs(cat) ==
    {pick(cat, S, reversed) :
        S \in {T \in SUBSET (1..Len(cat)) : Cardinality(T) <= MaxSegs},
        reversed \in BOOLEAN}

\* "UseDevelopmentStorage=true"
Seg_UseDev ==
    <<"U","s","e","D","e","v","e","l","o","p","m","e","n","t","S","t",
      "o","r","a","g","e","=","t","r","u","e">>
\* "DevelopmentStorageProxyUri=http://x"
Seg_ProxyX ==
    <<"D","e","v","e","l","o","p","m","e","n","t","S","t","o","r","a",
      "g","e","P","r","o","x","y","U","r","i","=","h","t","t","p",":",
      "/","/","x">>
\* " DevelopmentStorageProxyUri=http://y "
Seg_ProxyY ==
    <<" ","D","e","v","e","l","o","p","m","e","n","t","S","t","o","r",
      "a","g","e","P","r","o","x","y","U","r","i","=","h","t","t","p",
      ":","/","/","y"," ">>
\* "DefaultEndpointsProtocol=https"
Seg_ProtoHttps ==
    <<"D","e","f","a","u","l","t","E","n","d","p","o","i","n","t","s",
      "P","r","o","t","o","c","o","l","=","h","t","t","p","s">>
\* "DefaultEndpointsProtocol=HTTP"
Seg_ProtoUpper ==
    <<"D","e","f","a","u","l","t","E","n","d","p","o","i","n","t","s",
      "P","r","o","t","o","c","o","l","=","H","T","T","P">>
\* "AccountName=acct"
Seg_Name ==
    <<"A","c","c","o","u","n","t","N","a","m","e","=","a","c","c","t">>
\* " AccountName=acct2 "
Seg_NamePadded ==
    <<" ","A","c","c","o","u","n","t","N","a","m","e","=","a","c","c",
      "t","2"," ">>
\* "AccountKey=YWJj"
Seg_Key ==
    <<"A","c","c","o","u","n","t","K","e","y","=","Y","W","J","j">>
\* "AccountKey="
Seg_KeyEmpty ==
    <<"A","c","c","o","u","n","t","K","e","y","=">>
\* "EndpointSuffix=core.windows.net"
Seg_Suffix ==
    <<"E","n","d","p","o","i","n","t","S","u","f","f","i","x","=","c",
      "o","r","e",".","w","i","n","d","o","w","s",".","n","e","t">>
\* "BlobEndpoint=https://acct.blob.core.windows.net/"
Seg_EndpointHost ==
    <<"B","l","o","b","E","n","d","p","o","i","n","t","=","h","t","t",
      "p","s",":","/","/","a","c","c","t",".","b","l","o","b",".","c",
      "o","r","e",".","w","i","n","d","o","w","s",".","n","e","t","/">>
\* "BlobEndpoint=http://localhost:10001/devstoreaccount1//"
Seg_EndpointPath ==
    <<"B","l","o","b","E","n","d","p","o","i","n","t","=","h","t","t",
      "p",":","/","/","l","o","c","a","l","h","o","s","t",":","1","0",
      "0","0","1","/","d","e","v","s","t","o","r","e","a","c","c","o",
      "u","n","t","1","/","/">>
\* "SharedAccessSignature=sv=1"
Seg_Sas ==
    <<"S","h","a","r","e","d","A","c","c","e","s","s","S","i","g","n",
      "a","t","u","r","e","=","s","v","=","1">>
\* "AccountNameX=foo"
Seg_NameX ==
    <<"A","c","c","o","u","n","t","N","a","m","e","X","=","f","o","o">>
\* "Foo=bar"
Seg_Unknown ==
    <<"F","o","o","=","b","a","r">>

\* segments the parser is exercised with
ParserSegments ==
    <<Seg_UseDev, Seg_ProxyX, Seg_ProxyY, Seg_ProtoHttps, Seg_ProtoUpper, Seg_Name,
      Seg_NamePadded, Seg_Key, Seg_KeyEmpty, Seg_Suffix, Seg_EndpointHost, Seg_EndpointPath, Seg_Sas,
      Seg_NameX>>

\* segments of the deployed setting AzureWebJobsStorage
DeploymentSegments ==
    <<Seg_ProtoHttps, Seg_Name, Seg_Key, Seg_Suffix, Seg_EndpointHost, Seg_Sas>>

\* the clock value (hour, UTC) of the initial state
ClockStart == 20
\* the clock value at which a zone with daylight saving time changes its offset
ZoneChange == 23

\* time zones of the host: UTC; a zone one hour ahead of UTC that puts its
\* clocks forward at ZoneChange; a zone two hours ahead that puts them back
UTCZone == [base |-> 0, change |-> 0, delta |-> 0]
SpringZone == [base |-> 1, change |-> ZoneChange, delta |-> 1]
AutumnZone == [base |-> 2, change |-> ZoneChange, delta |-> -1]
Zones == {UTCZone, SpringZone, AutumnZone}

NotCalled == [called |-> FALSE]

-----------------------------------------------------------------------------
(* The parser on its own: extractConnectionStringParts applied to an input *)

ParserInit ==
    /\ segs \in Inputs(ParserSegments)
    /\ connectionString = join(segs, <<";">>)
    /\ tz = UTCZone
    /\ now = ClockStart
    /\ parts = NotCalled
    /\ signReq = NoRequest
    /\ res = NotCalled

Parse ==
    /\ parts' = [called |-> TRUE, out |-> extractConnectionStringParts(connectionString)]
    /\ UNCHANGED <<segs, connectionString, tz, now, signReq, res>>

ParserNext == Parse

ParserSpec == ParserInit /\ [][ParserNext]_vars

-----------------------------------------------------------------------------
(* The function app: requests arrive while the clock advances *)

Init ==
    /\ segs \in Inputs(DeploymentSegments)
    /\ connectionString = join(segs, <<";">>)
    /\ tz \in Zones
    /\ now = ClockStart
    /\ parts = NotCalled
    /\ signReq = NoRequest
    /\ res = NotCalled

Tick ==
    /\ now < ClockStart + MaxTicks
    /\ now' = now + 1
    /\ UNCHANGED <<segs, connectionString, tz, parts, signReq, res>>

\* module.exports: body = generateSasToken(process.env.AzureWebJobsStorage, 'images', 'c');
\* the call parses the configured string first, then builds the grant
HttpRequest ==
    /\ parts' = [called |-> TRUE, out |-> extractConnectionStringParts(connectionString)]
    /\ LET g == generateSasToken(parts'.out, ContainerImages, PermissionsC, tz, now)
       IN  /\ res' = [called |-> TRUE, at |-> now, out |-> g.result]
           /\ signReq' = g.request
    /\ UNCHANGED <<segs, connectionString, tz, now>>

Next == Tick \/ HttpRequest

Spec == Init /\ [][Next]_vars

-----------------------------------------------------------------------------
(* The fields of the input, read off the segments it was built from *)

\* a segment with surrounding whitespace removed
segment(i) == trim(segs[i])

\* the key of a segment: its text before the first "="
keyOf(s) == upTo(s, {"="})

Keys == {keyOf(segment(i)) : i \in 1..Len(segs)}

hasField(key) == \E i \in 1..Len(segs) : startsWith(segment(i), key \o <<"=">>)

fieldIndexes(key) == {i \in 1..Len(segs) : startsWith(segment(i), key \o <<"=">>)}

valueAt(i, key) == SubSeq(segment(i), Len(key) + 2, Len(segment(i)))

\* the value of the first / last segment with the given key
firstValue(key) ==
    valueAt(CHOOSE i \in fieldIndexes(key) : \A j \in fieldIndexes(key) : i <= j, key)
lastValue(key) ==
    valueAt(CHOOSE i \in fieldIndexes(key) : \A j \in fieldIndexes(key) : j <= i, key)

emulatorShorthand == startsWith(connectionString, K_UseDevelopmentStorage)

returned == parts.called /\ parts.out.ok
threw(e) == parts.called /\ ~parts.out.ok /\ parts.out.error = e

\* "devstoreaccount1"
EmulatorAccountName ==
    <<"d","e","v","s","t","o","r","e","a","c","c","o","u","n","t","1">>
\* "Eby8vdM02xNOcqFlqUwJPLlmEtlCDXJ1OUzFT50uSRZ6IFsuFq2UVErCz4I6tq/K1SZFPTOtr/KBHBeksoGMGw=="
EmulatorAccountKey ==
    <<"E","b","y","8","v","d","M","0","2","x","N","O","c","q","F","l",
      "q","U","w","J","P","L","l","m","E","t","l","C","D","X","J","1",
      "O","U","z","F","T","5","0","u","S","R","Z","6","I","F","s","u",
      "F","q","2","U","V","E","r","C","z","4","I","6","t","q","/","K",
      "1","S","Z","F","P","T","O","t","r","/","K","B","H","B","e","k",
      "s","o","G","M","G","w","=","=">>

-----------------------------------------------------------------------------
(* Claims *)

\* C1: every signing request handed to the signer names container "images",
\* carries exactly the permission set {create} and expires two hours after the
\* clock value at which the call was made.
C1_FixedScopeAndLifetime ==
    signReq.made =>
        /\ signReq.containerName = ContainerImages
        /\ signReq.permissions = {"create"}
        /\ signReq.expiresOn = res.at + 2

\* C2 (as stated): a string with DefaultEndpointsProtocol and AccountName,
\* optionally BlobEndpoint and EndpointSuffix, and no AccountKey field fails
\* with the Invalid AccountKey error.
C2_MissingKeyIsInvalidAccountKey ==
    ( /\ parts.called
      /\ {K_DefaultEndpointsProtocol, K_AccountName} \subseteq Keys
      /\ Keys \subseteq {K_DefaultEndpointsProtocol, K_AccountName,
                         K_BlobEndpoint, K_EndpointSuffix} )
    => threw(ErrInvalidAccountKey)

C2_SasPathInput ==
    /\ ~emulatorShorthand
    /\ hasField(K_DefaultEndpointsProtocol)
    /\ hasField(K_AccountName)
    /\ search(connectionString, K_AccountKeyEq) = -1

\* C2 (amended): a string, not the emulator shorthand, with DefaultEndpointsProtocol
\* and AccountName in which "AccountKey=" does not occur takes the SAS path: it
\* never fails with Invalid AccountKey or another Account-Key-branch error and
\* never yields an Account-Key credential; it yields a SAS credential or fails
\* with Invalid SharedAccessSignature, the account-name extraction error or a
\* TypeError.
C2_MissingKeyTakesSasPath ==
    (parts.called /\ C2_SasPathInput) =>
        IF parts.out.ok THEN parts.out.v.kind = "SASConnString"
        ELSE parts.out.error \in {ErrInvalidSas, ErrUnableToExtract, TypeError}

\* a string with protocol, account name, endpoint and SAS but no key is
\* resolved to a SAS credential
C2_Witness ==
    /\ parts.called
    /\ C2_SasPathInput
    /\ parts.out.ok
    /\ parts.out.v.kind = "SASConnString"

\* C3 (as stated): with an AccountKey field and a SharedAccessSignature field
\* both present, a returned credential is always of kind AccountConnString.
C3_KeyAndSasGiveAccount ==
    (returned /\ hasField(K_AccountKey) /\ hasField(K_SharedAccessSignature))
    => parts.out.v.kind = "AccountConnString"

\* C3 (amended): with a DefaultEndpointsProtocol field, an AccountKey field and
\* a SharedAccessSignature field all present, a returned credential is always
\* of kind AccountConnString.
C3_ProtocolKeyAndSasGiveAccount ==
    ( /\ returned
      /\ hasField(K_DefaultEndpointsProtocol)
      /\ hasField(K_AccountKey)
      /\ hasField(K_SharedAccessSignature) )
    => parts.out.v.kind = "AccountConnString"

C3_Witness ==
    /\ returned
    /\ ~emulatorShorthand
    /\ hasField(K_DefaultEndpointsProtocol)
    /\ hasField(K_AccountKey)
    /\ hasField(K_SharedAccessSignature)
    /\ hasField(K_BlobEndpoint)
    /\ parts.out.v.kind = "AccountConnString"

\* C4: when the configured string resolves to a SAS credential, the request
\* fails with UnsupportedCredentialKind and nothing is handed to the signer.
C4_SasCredentialIsRejected ==
    (res.called /\ parts.out.ok /\ parts.out.v.kind = "SASConnString") =>
        /\ ~res.out.ok
        /\ res.out.error = "UnsupportedCredentialKind"
        /\ ~signReq.made

\* C5: the url of a returned credential does not end with "/".
C5_NoTrailingSlash == returned => ~endsWith(parts.out.v.url, S_Slash)

\* C6: a returned credential is of exactly one variant with non-empty fields:
\* a non-empty accountName in both, a decoded accountKey of positive length in
\* the Account-Key variant, a non-empty accountSas in the SAS variant.
C6_NonEmptyFields ==
    returned =>
        \/ /\ parts.out.v.kind = "AccountConnString"
           /\ DOMAIN parts.out.v = {"kind", "url", "accountName", "accountKey", "proxyUri"}
           /\ parts.out.v.accountName # <<>>
           /\ Len(parts.out.v.accountKey) > 0
        \/ /\ parts.out.v.kind = "SASConnString"
           /\ DOMAIN parts.out.v = {"kind", "url", "accountName", "accountSas"}
           /\ parts.out.v.accountName # <<>>
           /\ parts.out.v.accountSas # <<>>

\* an Account-Key credential returned for a string that has an explicit
\* endpoint and more than one AccountKey segment
C6_Witness ==
    /\ returned
    /\ parts.out.v.kind = "AccountConnString"
    /\ ~emulatorShorthand
    /\ Cardinality(fieldIndexes(K_AccountKey)) = 2
    /\ hasField(K_BlobEndpoint)

C7_EmulatorCredential ==
    /\ parts.out.ok
    /\ parts.out.v.kind = "AccountConnString"
    /\ parts.out.v.accountName = EmulatorAccountName
    /\ bufferToBase64(parts.out.v.accountKey) = EmulatorAccountKey

C8_SynthesisInput ==
    /\ Keys = {K_DefaultEndpointsProtocol, K_AccountName, K_AccountKey, K_EndpointSuffix}
    /\ toLowerCase(firstValue(K_DefaultEndpointsProtocol)) \in {S_http, S_https}
    /\ firstValue(K_EndpointSuffix) # <<>>
    /\ firstValue(K_AccountName) # <<>>
    /\ bufferFromBase64(firstValue(K_AccountKey)) # <<>>

\* C8: for such a string the returned url is
\* {protocol}://{accountName}.blob.{endpointSuffix} built from the field values,
\* and the returned accountName is the field's value.
C8_SynthesizedEndpoint ==
    (parts.called /\ C8_SynthesisInput) =>
        /\ parts.out.ok
        /\ parts.out.v.url =
              firstValue(K_DefaultEndpointsProtocol) \o S_SchemeSep
                  \o firstValue(K_AccountName) \o S_DotBlobDot
                  \o firstValue(K_EndpointSuffix)
        /\ parts.out.v.accountName = firstValue(K_AccountName)

\* the protocol is given in upper case
C8_Witness ==
    /\ parts.called
    /\ C8_SynthesisInput
    /\ firstValue(K_DefaultEndpointsProtocol) # toLowerCase(firstValue(K_DefaultEndpointsProtocol))
    /\ parts.out.ok

\* C9: on the SAS path a string without a BlobEndpoint field fails with the
\* Invalid BlobEndpoint error.
C9_MissingEndpointIsInvalidBlobEndpoint ==
    ( /\ parts.called
      /\ ~emulatorShorthand
      /\ ~( search(connectionString, K_DefaultEndpointsProtocolEq) # -1
            /\ search(connectionString, K_AccountKeyEq) # -1 )
      /\ ~hasField(K_BlobEndpoint) )
    => threw(ErrInvalidBlobEndpoint)

\* s with x put in front of its element at position i (i = Len(s) + 1: at the end)
insertAt(s, i, x) == SubSeq(s, 1, i - 1) \o <<x>> \o SubSeq(s, i, Len(s))

\* segments whose key is not a recognized key
UnknownSegments == {Seg_Unknown, Seg_NameX}

\* C10: inserting a segment with an unknown key at any position leaves the
\* outcome of extractConnectionStringParts unchanged.
C10_UnknownKeysIgnored ==
    parts.called =>
        \A x \in UnknownSegments : \A i \in 1..(Len(segs) + 1) :
            extractConnectionStringParts(join(insertAt(segs, i, x), <<";">>)) = parts.out

=============================================================================
